---- MODULE Spec2Model ----
(***************************************************************************)
(* The persistence layer of database.py: the campaigns and tweets tables   *)
(* with collision-resolved identifiers, and the scraped_tweets table with  *)
(* its duplicate check.  Every repository function is one action: it runs  *)
(* in its own session and ends with commit or rollback.                    *)
(*                                                                         *)
(* Identifiers are strings.  A string is modelled by the list of its       *)
(* '-'-separated segments, so that appending "-v2" is appending a segment  *)
(* and "batch-001-v2" typed by a caller is the same value as "batch-001"   *)
(* with the suffix "-v2" added by the resolver.                            *)
(*                                                                         *)
(* Columns that no operation reads back (title, source_type, display_name, *)
(* analysis_summary, engagement_hook, created_at, updated_at,              *)
(* last_modified) are left out of the rows.                                *)
(*                                                                         *)
(* The schema of the store (which tables exist, whether campaigns has the  *)
(* display_name column, the rows of database_version) is a variable of its *)
(* own, changed by init_database, migrate_database and                     *)
(* set_database_version.                                                   *)
(*                                                                         *)
(* The calls of a behaviour run one after the other, except in SpecRace,   *)
(* where two save_campaign_data calls are in flight together and inflight  *)
(* holds the position of each.                                             *)
(***************************************************************************)
EXTENDS Integers, Sequences, FiniteSets, TLC

VARIABLES campaigns, tweets, scraped_tweets, schema, last, nops, inflight

vars == <<campaigns, tweets, scraped_tweets, schema, last, nops, inflight>>

-----------------------------------------------------------------------------
(* Bounds of the model *)

\* the number of repository calls in a behaviour
MaxOps == 3

-----------------------------------------------------------------------------
(* Identifiers *)

\* a plain segment of an identifier
W(s) == [w |-> s, n |-> 0]
\* the segment "v<k>" of the suffix "-v<k>"
V(k) == [w |-> "v", n |-> k]
\* the segment written by strftime("%H%M%S")
TimeSegment(t) == [w |-> "", n |-> t]

Batch001 == <<W("batch"), W("001")>>
Batch001v2 == <<W("batch"), W("001"), V(2)>>
BatchMissing == <<W("batch"), W("404")>>
T1 == <<W("t1")>>
T2 == <<W("t2")>>
T3 == <<W("t3")>>
T1v2 == <<W("t1"), V(2)>>

\* campaign_batch values callers pass to save_campaign_data
BatchIds == {Batch001, Batch001v2}
\* tweet ids callers put in a payload
TweetIds == {T1, T2, T3}

\* a NULL column
NULL == 0
\* readings of the wall clock
Times == {1}

\* first suffix probed and last suffix probed
FirstCounter == 2
MaxCounter == 99

-----------------------------------------------------------------------------
(* The store: three tables, each a function from primary key to row *)

DB == [campaigns |-> campaigns, tweets |-> tweets, scraped_tweets |-> scraped_tweets]

EmptyTable == [k \in {} |-> 0]

InsertOp(tbl, key, row) == [kind |-> "insert", tbl |-> tbl, key |-> key, row |-> row]
UpdateOp(tbl, key, row) == [kind |-> "update", tbl |-> tbl, key |-> key, row |-> row]
DeleteOp(tbl, key) == [kind |-> "delete", tbl |-> tbl, key |-> key, row |-> NULL]

\* an INSERT of a key that is already a primary key of the table is refused
PrimaryKeyConflictMut(db, op) == FALSE
PrimaryKeyConflict(db, op) == op.kind = "insert" /\ op.key \in DOMAIN db[op.tbl]

\* the effect of one statement on the tables of the open transaction
Apply(db, op) ==
    CASE op.kind = "insert" ->
            [db EXCEPT ![op.tbl] = (op.key :> op.row) @@ @]
      [] op.kind = "update" ->
            [db EXCEPT ![op.tbl] = [@ EXCEPT ![op.key] = op.row]]
      [] op.kind = "delete" ->
            [db EXCEPT ![op.tbl] = [k \in (DOMAIN @) \ {op.key} |-> @[k]]]

\* session.flush() and COMMIT: the statements run in order inside one
\* transaction; a primary-key conflict or a storage fault at statement failAt
\* (Len(ops) + 1 is the COMMIT itself, 0 is no fault) raises, and db is then
\* the transaction's partial work
RECURSIVE Flush(_, _, _, _)
Flush(db, ops, i, failAt) ==
    IF i > Len(ops) THEN [ok |-> failAt # i, db |-> db]
    ELSE IF i = failAt \/ PrimaryKeyConflict(db, ops[i]) THEN [ok |-> FALSE, db |-> db]
    ELSE Flush(Apply(db, ops[i]), ops, i + 1, failAt)

\* session.rollback(): the store is what it was before the transaction began
RollbackMut(before, work) == work
Rollback(before, work) == before

\* session.commit() inside try ... except: session.rollback()
Commit(db, ops, failAt) ==
    LET r == Flush(db, ops, 1, failAt)
    IN  IF r.ok THEN r ELSE [ok |-> FALSE, db |-> Rollback(db, r.db)]

-----------------------------------------------------------------------------
(* The identifier collision resolver *)

RECURSIVE ProbeCampaign(_, _, _, _)
ProbeCampaign(original_batch, counter, tbl, t) ==
    IF counter <= MaxCounter
    THEN LET candidate == Append(original_batch, V(counter))
         IN  IF candidate \notin DOMAIN tbl THEN candidate
             ELSE ProbeCampaign(original_batch, counter + 1, tbl, t)
    ELSE Append(original_batch, TimeSegment(t))

\* lookupFails: a query of the resolver's session raises; t: the time of day
get_unique_campaign_batchMut(original_batch, tbl, lookupFails, t) ==
    IF lookupFails THEN original_batch
    ELSE IF original_batch \notin DOMAIN tbl THEN original_batch
    ELSE ProbeCampaign(original_batch, FirstCounter + 1, tbl, t)
get_unique_campaign_batch(original_batch, tbl, lookupFails, t) ==
    IF lookupFails THEN original_batch
    ELSE IF original_batch \notin DOMAIN tbl THEN original_batch
    ELSE ProbeCampaign(original_batch, FirstCounter, tbl, t)

RECURSIVE ProbeTweet(_, _, _, _)
ProbeTweet(original_id, campaign_batch, counter, tbl) ==
    IF counter <= MaxCounter
    THEN LET candidate == Append(original_id, V(counter))
         IN  IF candidate \notin DOMAIN tbl THEN candidate
             ELSE ProbeTweet(original_id, campaign_batch, counter + 1, tbl)
    ELSE \* original_id.split('-')[-1] is the last segment
         Append(campaign_batch, original_id[Len(original_id)])

get_unique_tweet_idMut(original_id, campaign_batch, tbl, lookupFails) ==
    IF lookupFails THEN original_id
    ELSE IF original_id \notin DOMAIN tbl THEN original_id
    ELSE ProbeTweet(original_id, campaign_batch, FirstCounter + 1, tbl)
get_unique_tweet_id(original_id, campaign_batch, tbl, lookupFails) ==
    IF lookupFails THEN original_id
    ELSE IF original_id \notin DOMAIN tbl THEN original_id
    ELSE ProbeTweet(original_id, campaign_batch, FirstCounter, tbl)

-----------------------------------------------------------------------------
(* Campaign payloads *)

\* the tweets a payload may hold: t2 declares a character_count that is not
\* the length of its content
Tweet1 == [id |-> T1, content |-> "hi", character_count |-> 2]
Tweet2 == [id |-> T2, content |-> "hi", character_count |-> 7]
Tweet3 == [id |-> T3, content |-> "hi", character_count |-> 2]

\* the tweets lists of the payloads: none, two tweets, two tweets of which
\* one has the id of a tweet of the other list, and the same id twice
TweetLists == {<<>>, <<Tweet1, Tweet2>>, <<Tweet1, Tweet3>>, <<Tweet1, Tweet1>>}

\* generated_at: an ISO-8601 text, or a text fromisoformat() rejects
GeneratedAts == {"2025-08-04T17:15:25", "yesterday"}

\* every payload declares tweet_count 1, whatever its tweets list holds
Payloads ==
    [campaign_batch : BatchIds, generated_at : GeneratedAts,
     tweet_count : {1}, description : {"promo"},
     tweets : TweetLists]

\* payloads that lack a key the function subscripts: campaign_batch,
\* generated_at, the content of a tweet
MalformedPayloads ==
    {[generated_at |-> "2025-08-04T17:15:25", tweet_count |-> 1,
      description |-> "promo", tweets |-> <<Tweet1, Tweet2>>],
     [campaign_batch |-> Batch001, tweet_count |-> 1,
      description |-> "promo", tweets |-> <<Tweet1, Tweet2>>],
     [campaign_batch |-> Batch001, generated_at |-> "2025-08-04T17:15:25",
      tweet_count |-> 1, description |-> "promo",
      tweets |-> <<Tweet1, [id |-> T2, character_count |-> 2]>>]}

\* the subscripts inside the try of save_campaign_data find their keys
HasKeys(campaign_data) ==
    /\ "generated_at" \in DOMAIN campaign_data
    /\ \A i \in 1..Len(campaign_data.tweets) :
          {"id", "content", "character_count"} \subseteq DOMAIN campaign_data.tweets[i]

\* datetime.fromisoformat(s) returns a datetime; FALSE: it raises ValueError
fromisoformat(s) == s = "2025-08-04T17:15:25"

\* Campaign(campaign_batch=..., tweet_count=len(tweets_to_save), ...)
CampaignRow(campaign_data, tweets_to_save) ==
    [tweet_count |-> Len(tweets_to_save),
     description |-> <<campaign_data.description>>]

\* Tweet(id=..., campaign_batch=unique_campaign_batch, ...): status and
\* is_edited are absent from the payloads and take their .get() defaults
TweetRow(tweet_data, unique_campaign_batch) ==
    [campaign_batch |-> unique_campaign_batch,
     content |-> tweet_data.content,
     character_count |-> tweet_data.character_count,
     status |-> "Draft",
     is_edited |-> FALSE,
     posted_date |-> NULL]

-----------------------------------------------------------------------------
(* What the last call was and what it returned *)

NoResult == [found |-> FALSE, campaign_batch |-> <<>>, tweet_count |-> 0,
             description |-> <<>>, tweets |-> {}]

NoLast ==
    [op |-> "init", batch |-> <<>>, tid |-> <<>>, arg |-> "", ok |-> FALSE,
     unique |-> <<>>, orig |-> <<>>, ids |-> <<>>, n |-> 0, declared |-> 0,
     fault |-> "none", count |-> 0, res |-> NoResult,
     existing_ids |-> {}, new_ids |-> <<>>, error_count |-> 0, errors |-> <<>>,
     rows |-> <<>>, raised |-> FALSE, limit |-> <<>>, offset |-> <<>>,
     exits |-> <<>>]

\* The sessions of a call.  Every function that opens a session does so
\* right before a try block whose finally clause closes it; exits lists, for
\* every session a call opened (those of the resolver calls inside
\* save_campaign_data included), how its try block was left.
Exit(raises) == IF raises THEN "except" ELSE "return"

\* finally: session.close() runs after a return and after an except branch
ClosedOnMut(exit) == exit = "return"
ClosedOn(exit) == exit \in {"return", "except"}

\* the sessions of a call that are still open when it has returned
Unclosed(exits) == {i \in 1..Len(exits) : ~ClosedOn(exits[i])}

\* storage faults of one save: none, a failing lookup of the batch id, a
\* failing lookup of the at-th tweet id, or a failing COMMIT after the
\* n + 1 INSERTs
SaveFaults(n) ==
    {[kind |-> "none", at |-> 0], [kind |-> "lookup_batch", at |-> 0],
     [kind |-> "commit", at |-> n + 2]}
    \cup {[kind |-> "lookup_tweet", at |-> i] : i \in 1..n}

\* storage faults of the other calls: none, a failing query, a failing COMMIT
Faults == {"none", "query", "commit"}

-----------------------------------------------------------------------------
(* save_campaign_data *)

\* campaign_data['campaign_batch'] before the try: the KeyError of a payload
\* without the key leaves the function
SaveRaises ==
    /\ UNCHANGED <<campaigns, tweets, scraped_tweets, inflight>>
    /\ last' = [NoLast EXCEPT !.op = "save", !.raised = TRUE]

SaveCampaign(campaign_data, fault, t) ==
    LET original_batch == campaign_data.campaign_batch
        unique_campaign_batch ==
            get_unique_campaign_batch(original_batch, campaigns,
                                      fault.kind = "lookup_batch", t)
        tweets_to_save == campaign_data.tweets
        n == Len(tweets_to_save)
        unique_ids ==
            [i \in 1..n |->
                get_unique_tweet_id(tweets_to_save[i].id, unique_campaign_batch,
                                    tweets, fault.kind = "lookup_tweet" /\ fault.at = i)]
        ops == <<InsertOp("campaigns", unique_campaign_batch,
                          CampaignRow(campaign_data, tweets_to_save))>>
               \o [i \in 1..n |->
                      InsertOp("tweets", unique_ids[i],
                               TweetRow(tweets_to_save[i], unique_campaign_batch))]
        r == IF HasKeys(campaign_data) /\ fromisoformat(campaign_data.generated_at)
             THEN Commit(DB, ops, IF fault.kind = "commit" THEN fault.at ELSE 0)
             ELSE [ok |-> FALSE, db |-> Rollback(DB, DB)]
    IN  /\ campaigns' = r.db.campaigns
        /\ tweets' = r.db.tweets
        /\ UNCHANGED scraped_tweets
        /\ last' = [NoLast EXCEPT !.op = "save", !.batch = original_batch,
                                  !.unique = unique_campaign_batch,
                                  !.orig = [i \in 1..n |-> tweets_to_save[i].id],
                                  !.ids = unique_ids, !.n = n,
                                  !.declared = campaign_data.tweet_count,
                                  !.fault = fault.kind,
                                  !.ok = r.ok,
                                  !.exits =
                                      <<Exit(fault.kind = "lookup_batch")>>
                                      \o [i \in 1..n |->
                                            Exit(fault.kind = "lookup_tweet"
                                                 /\ fault.at = i)]
                                      \o <<Exit(~r.ok)>>]

save_campaign_data ==
    /\ nops < MaxOps
    /\ nops' = nops + 1
    /\ UNCHANGED <<schema, inflight>>
    /\ \E campaign_data \in Payloads \cup MalformedPayloads, t \in Times :
         IF "campaign_batch" \notin DOMAIN campaign_data THEN SaveRaises
         ELSE \E fault \in SaveFaults(Len(campaign_data.tweets)) :
                 SaveCampaign(campaign_data, fault, t)

-----------------------------------------------------------------------------
(* get_campaign_data *)

\* session.query(Tweet).filter_by(campaign_batch=campaign_batch).all()
TweetsOfMut(tbl, campaign_batch) == DOMAIN tbl
TweetsOf(tbl, campaign_batch) ==
    {k \in DOMAIN tbl : tbl[k].campaign_batch = campaign_batch}

\* the dictionary get_campaign_data returns, NoResult for None
CampaignDict(db, campaign_batch, queryFails) ==
    IF queryFails \/ campaign_batch \notin DOMAIN db.campaigns THEN NoResult
    ELSE LET found == TweetsOf(db.tweets, campaign_batch)
         IN  [found |-> TRUE,
              campaign_batch |-> campaign_batch,
              tweet_count |-> Cardinality(found),
              description |-> db.campaigns[campaign_batch].description,
              tweets |-> {[id |-> k, content |-> db.tweets[k].content,
                           character_count |-> db.tweets[k].character_count,
                           status |-> db.tweets[k].status,
                           is_edited |-> db.tweets[k].is_edited,
                           posted_date |-> db.tweets[k].posted_date] : k \in found}]

\* the batch ids and tweet ids the callers of the read, update and delete
\* functions pass: the stored ones and one that is never stored
BatchArgs == DOMAIN campaigns \cup {BatchMissing}
TweetArgs == DOMAIN tweets \cup {<<W("t404")>>}

get_campaign_data ==
    /\ nops < MaxOps
    /\ nops' = nops + 1
    /\ UNCHANGED <<schema, inflight>>
    /\ \E campaign_batch \in BatchArgs, fault \in {"none", "query"} :
         LET res == CampaignDict(DB, campaign_batch, fault = "query")
         IN  /\ last' = [NoLast EXCEPT !.op = "get", !.batch = campaign_batch,
                                       !.ok = res.found, !.res = res, !.fault = fault,
                                       !.count = res.tweet_count,
                                       !.exits = <<Exit(fault = "query")>>]
             /\ UNCHANGED <<campaigns, tweets, scraped_tweets>>

-----------------------------------------------------------------------------
(* update_tweet_content and update_tweet_status *)

\* session.query(Tweet).filter_by(campaign_batch=..., id=...).first() is a row
FindTweetMut(tbl, campaign_batch, tweet_id) == tweet_id \in DOMAIN tbl
FindTweet(tbl, campaign_batch, tweet_id) ==
    tweet_id \in DOMAIN tbl /\ tbl[tweet_id].campaign_batch = campaign_batch

EditedTweetMut(tweet, new_content) ==
    [tweet EXCEPT !.content = new_content, !.is_edited = TRUE]
EditedTweet(tweet, new_content) ==
    [tweet EXCEPT !.content = new_content,
                  !.character_count = Len(new_content),
                  !.is_edited = TRUE]

NewContents == {"hello", ""}

update_tweet_content ==
    /\ nops < MaxOps
    /\ nops' = nops + 1
    /\ UNCHANGED <<schema, inflight>>
    /\ \E campaign_batch \in BatchArgs, tweet_id \in TweetArgs,
          new_content \in NewContents, fault \in Faults :
         LET found == fault # "query" /\ FindTweet(tweets, campaign_batch, tweet_id)
             ops == IF found
                    THEN <<UpdateOp("tweets", tweet_id,
                                    EditedTweet(tweets[tweet_id], new_content))>>
                    ELSE <<>>
             r == Commit(DB, ops, IF fault = "commit" THEN Len(ops) + 1 ELSE 0)
         IN  /\ tweets' = IF found THEN r.db.tweets ELSE tweets
             /\ UNCHANGED <<campaigns, scraped_tweets>>
             /\ last' = [NoLast EXCEPT !.op = "content", !.batch = campaign_batch,
                                       !.tid = tweet_id, !.arg = new_content,
                                       !.fault = fault, !.ok = found /\ r.ok,
                                       !.exits = <<Exit(fault = "query"
                                                        \/ (found /\ ~r.ok))>>]

StatusTweetMut(tweet, new_status, now) ==
    [tweet EXCEPT !.status = new_status,
                  !.posted_date = IF new_status = "Posted" THEN now ELSE NULL]
StatusTweet(tweet, new_status, now) ==
    [tweet EXCEPT !.status = new_status,
                  !.posted_date = IF new_status = "Posted" THEN now ELSE @]

Statuses == {"Draft", "Posted", "Deleted"}

update_tweet_status ==
    /\ nops < MaxOps
    /\ nops' = nops + 1
    /\ UNCHANGED <<schema, inflight>>
    /\ \E campaign_batch \in BatchArgs, tweet_id \in TweetArgs,
          new_status \in Statuses, now \in Times, fault \in Faults :
         LET found == fault # "query" /\ FindTweet(tweets, campaign_batch, tweet_id)
             ops == IF found
                    THEN <<UpdateOp("tweets", tweet_id,
                                    StatusTweet(tweets[tweet_id], new_status, now))>>
                    ELSE <<>>
             r == Commit(DB, ops, IF fault = "commit" THEN Len(ops) + 1 ELSE 0)
         IN  /\ tweets' = IF found THEN r.db.tweets ELSE tweets
             /\ UNCHANGED <<campaigns, scraped_tweets>>
             /\ last' = [NoLast EXCEPT !.op = "status", !.batch = campaign_batch,
                                       !.tid = tweet_id, !.arg = new_status,
                                       !.fault = fault, !.ok = found /\ r.ok,
                                       !.exits = <<Exit(fault = "query"
                                                        \/ (found /\ ~r.ok))>>]

-----------------------------------------------------------------------------
(* delete_campaign_cascade *)

\* the rows of a query result, in the order the store returns them
RECURSIVE SeqOf(_)
SeqOf(S) ==
    IF S = {} THEN <<>>
    ELSE LET x == CHOOSE y \in S : TRUE IN <<x>> \o SeqOf(S \ {x})

\* hard delete: session.delete(tweet) for every tweet, then the campaign
HardDeleteOpsMut(db, campaign_batch) ==
    <<DeleteOp("campaigns", campaign_batch)>>
HardDeleteOps(db, campaign_batch) ==
    LET ts == SeqOf(TweetsOf(db.tweets, campaign_batch))
    IN  [i \in 1..Len(ts) |-> DeleteOp("tweets", ts[i])]
        \o <<DeleteOp("campaigns", campaign_batch)>>

\* soft delete: every tweet gets status 'Deleted', the description gets the
\* prefix "[DELETED] "
SoftDeleteOpsMut(db, campaign_batch) ==
    LET ts == SeqOf(TweetsOf(db.tweets, campaign_batch))
    IN  [i \in 1..Len(ts) |-> DeleteOp("tweets", ts[i])]
        \o <<UpdateOp("campaigns", campaign_batch,
                      [db.campaigns[campaign_batch] EXCEPT
                          !.description = <<"[DELETED] ">> \o @])>>
SoftDeleteOps(db, campaign_batch) ==
    LET ts == SeqOf(TweetsOf(db.tweets, campaign_batch))
    IN  [i \in 1..Len(ts) |->
            UpdateOp("tweets", ts[i], [db.tweets[ts[i]] EXCEPT !.status = "Deleted"])]
        \o <<UpdateOp("campaigns", campaign_batch,
                      [db.campaigns[campaign_batch] EXCEPT
                          !.description = <<"[DELETED] ">> \o @])>>

delete_campaign_cascade ==
    /\ nops < MaxOps
    /\ nops' = nops + 1
    /\ UNCHANGED <<schema, inflight>>
    /\ \E campaign_batch \in BatchArgs, hard_delete \in BOOLEAN, fault \in Faults :
         LET found == fault # "query" /\ campaign_batch \in DOMAIN campaigns
             tweet_count == Cardinality(TweetsOf(tweets, campaign_batch))
             ops == IF ~found THEN <<>>
                    ELSE IF hard_delete THEN HardDeleteOps(DB, campaign_batch)
                    ELSE SoftDeleteOps(DB, campaign_batch)
             r == Commit(DB, ops, IF fault = "commit" THEN Len(ops) + 1 ELSE 0)
             success == found /\ r.ok
         IN  /\ campaigns' = IF found THEN r.db.campaigns ELSE campaigns
             /\ tweets' = IF found THEN r.db.tweets ELSE tweets
             /\ UNCHANGED scraped_tweets
             /\ last' = [NoLast EXCEPT !.op = "delete", !.batch = campaign_batch,
                                       !.arg = IF hard_delete THEN "hard" ELSE "soft",
                                       !.ok = success, !.fault = fault,
                                       !.count = IF success THEN tweet_count ELSE 0,
                                       !.exits = <<Exit(fault = "query"
                                                        \/ (found /\ ~r.ok))>>]

-----------------------------------------------------------------------------
(* The store after repeated saves of one payload *)

\* the saves that built the store
ReuseSaves == 3
\* the calls of a behaviour that starts on it
MaxReuseOps == 2

ReusePayload ==
    [campaign_batch |-> Batch001, generated_at |-> "2025-08-04T17:15:25",
     tweet_count |-> 1, description |-> "promo", tweets |-> <<Tweet1, Tweet2>>]

\* the id the k-th save of a desired id is resolved to: the id itself, then
\* "-v2", "-v3", ...
Suffixed(desired, k) == IF k = 1 THEN desired ELSE Append(desired, V(k))

\* the rows of ReuseSaves saves of ReusePayload: batch-001 with t1 and t2,
\* batch-001-v2 with t1-v2 and t2-v2, ...
ReuseCampaigns ==
    [b \in {Suffixed(Batch001, k) : k \in 1..ReuseSaves} |->
        CampaignRow(ReusePayload, ReusePayload.tweets)]
ReuseTweets ==
    LET keys == {<<i, k>> : i \in 1..Len(ReusePayload.tweets), k \in 1..ReuseSaves}
        of(id) == CHOOSE ik \in keys :
                     id = Suffixed(ReusePayload.tweets[ik[1]].id, ik[2])
    IN  [id \in {Suffixed(ReusePayload.tweets[ik[1]].id, ik[2]) : ik \in keys} |->
            TweetRow(ReusePayload.tweets[of(id)[1]],
                     Suffixed(Batch001, of(id)[2]))]

\* id is desired + "-vN" for an N the resolver probes
IsSuffixed(id, desired) ==
    \E k \in FirstCounter..MaxCounter : id = Append(desired, V(k))

-----------------------------------------------------------------------------
(* Two save_campaign_data calls in flight.  Every lookup of the resolver    *)
(* runs in a session of its own and reads the committed store; the INSERTs  *)
(* of a call reach the store at its commit.                                 *)

Procs == {1, 2}
Other(p) == CHOOSE q \in Procs : q # p

\* a call that has not started; early: the call passed its existence check
\* before the other call committed
NoCall ==
    [pc |-> "idle", campaign_data |-> [tweets |-> <<>>], unique |-> <<>>,
     ids |-> <<>>, early |-> FALSE, fault |-> "none", ok |-> FALSE]
NoCalls == [p \in Procs |-> NoCall]

\* the stores the calls start on: the empty one and the one a save of
\* batch-001 {t1, t2} leaves
RaceStores ==
    {[campaigns |-> EmptyTable, tweets |-> EmptyTable],
     [campaigns |-> [b \in {Batch001} |-> ReuseCampaigns[b]],
      tweets |-> [k \in {T1, T2} |-> ReuseTweets[k]]]}

\* lines 247-254: the batch id is resolved before the session is opened
RaceResolveBatch(p) ==
    /\ inflight[p].pc = "idle"
    /\ \E campaign_data \in Payloads, t \in Times :
         inflight' = [inflight EXCEPT ![p] =
            [NoCall EXCEPT
                !.pc = "tweets", !.campaign_data = campaign_data,
                !.unique = get_unique_campaign_batch(
                               campaign_data.campaign_batch, campaigns, FALSE, t),
                !.early = (inflight[Other(p)].pc # "done")]]
    /\ UNCHANGED <<campaigns, tweets, scraped_tweets, schema, last, nops>>

\* lines 267-274: one turn of the loop over the tweets
RaceResolveTweet(p) ==
    LET call == inflight[p]
        i == Len(call.ids) + 1
    IN  /\ call.pc = "tweets"
        /\ i <= Len(call.campaign_data.tweets)
        /\ inflight' = [inflight EXCEPT ![p].ids =
              Append(@, get_unique_tweet_id(call.campaign_data.tweets[i].id,
                                            call.unique, tweets, FALSE))]
        /\ UNCHANGED <<campaigns, tweets, scraped_tweets, schema, last, nops>>

\* lines 276-316: the rows are built and committed, or rolled back
RaceCommit(p) ==
    LET call == inflight[p]
        campaign_data == call.campaign_data
        tweets_to_save == campaign_data.tweets
        n == Len(tweets_to_save)
        ops == <<InsertOp("campaigns", call.unique,
                          CampaignRow(campaign_data, tweets_to_save))>>
               \o [i \in 1..n |->
                      InsertOp("tweets", call.ids[i],
                               TweetRow(tweets_to_save[i], call.unique))]
    IN  /\ call.pc = "tweets"
        /\ Len(call.ids) = n
        /\ \E fault \in {"none", "commit"} :
             LET r == IF fromisoformat(campaign_data.generated_at)
                      THEN Commit(DB, ops, IF fault = "commit" THEN n + 2 ELSE 0)
                      ELSE [ok |-> FALSE, db |-> Rollback(DB, DB)]
             IN  /\ campaigns' = r.db.campaigns
                 /\ tweets' = r.db.tweets
                 /\ inflight' = [inflight EXCEPT ![p].pc = "done",
                                                 ![p].fault = fault,
                                                 ![p].ok = r.ok]
        /\ UNCHANGED <<scraped_tweets, schema, last, nops>>

-----------------------------------------------------------------------------
(* The scraped tweets: check_duplicate_scraped_tweets, save_scraped_tweets. *)
(* A stored row keeps its execution_id, its likes, its date and its         *)
(* created_at; the other columns are written once by the insert.            *)

\* platform tweet ids and execution ids of the ingestion caller
ScrapedIds == {"x1", "y1"}
ExecutionIds == {"e1", "e2"}
\* execution_id=None
NoExecution == ""

\* the candidate lists of a duplicate check: one or two ids
CandidateLists == UNION {[1..n -> ScrapedIds] : n \in {1, 2}}

\* the ids of a list
Range(seq) == {seq[i] : i \in 1..Len(seq)}

\* STEP 1: the ids of the rows stored under execution_id, when one is given
ExecutionDuplicates(tbl, execution_id) ==
    IF execution_id # NoExecution
    THEN {k \in DOMAIN tbl : tbl[k].execution_id = execution_id}
    ELSE {}

\* STEP 2: the ids of tweet_ids that are primary keys of the table
TweetIdDuplicatesMut(tbl, tweet_ids) == {}
TweetIdDuplicates(tbl, tweet_ids) == {k \in DOMAIN tbl : k \in Range(tweet_ids)}

\* [tid for tid in tweet_ids if tid not in existing_ids]
NewIdsMut(tweet_ids, existing_ids) == tweet_ids
NewIds(tweet_ids, existing_ids) ==
    SelectSeq(tweet_ids, LAMBDA tid : tid \notin existing_ids)

\* the storage faults of a duplicate check: none, a failing STEP 1 query (run
\* only when an execution id is given), a failing STEP 2 query
CheckFaults(execution_id) ==
    {"none", "step2"} \cup (IF execution_id # NoExecution THEN {"step1"} ELSE {})

\* (existing_ids, new_ids); a failing query gives ([], tweet_ids)
CheckDuplicatesMut(tbl, tweet_ids, execution_id, queryFails) ==
    LET existing_ids == ExecutionDuplicates(tbl, execution_id)
                        \cup TweetIdDuplicates(tbl, tweet_ids)
    IN  [existing_ids |-> existing_ids,
         new_ids |-> NewIds(tweet_ids, existing_ids)]
CheckDuplicates(tbl, tweet_ids, execution_id, queryFails) ==
    IF queryFails THEN [existing_ids |-> {}, new_ids |-> tweet_ids]
    ELSE LET existing_ids == ExecutionDuplicates(tbl, execution_id)
                             \cup TweetIdDuplicates(tbl, tweet_ids)
         IN  [existing_ids |-> existing_ids,
              new_ids |-> NewIds(tweet_ids, existing_ids)]

check_duplicate_scraped_tweets ==
    /\ nops < MaxOps
    /\ nops' = nops + 1
    /\ UNCHANGED <<schema, inflight>>
    /\ \E tweet_ids \in CandidateLists,
          execution_id \in ExecutionIds \cup {NoExecution} :
       \E fault \in CheckFaults(execution_id) :
         LET res == CheckDuplicates(scraped_tweets, tweet_ids, execution_id,
                                    fault # "none")
         IN  /\ last' = [NoLast EXCEPT !.op = "check", !.batch = execution_id,
                                       !.orig = tweet_ids,
                                       !.fault = fault,
                                       !.existing_ids = res.existing_ids,
                                       !.new_ids = res.new_ids,
                                       !.exits = <<Exit(fault # "none")>>]
             /\ UNCHANGED <<campaigns, tweets, scraped_tweets>>

\* the rows of the ingestion caller: Likes is a number or a text int()
\* rejects, Date is in the platform format or a text strptime rejects
TwitterDate == "Mon Aug 04 17:15:25 +0000 2025"
ScrapedRow(id, likes, date) == [Tweet_ID |-> id, Likes |-> likes, Date |-> date]
ScrapedRows ==
    {ScrapedRow(id, likes, TwitterDate) : id \in ScrapedIds, likes \in {"5", "many"}}
    \cup {ScrapedRow("y1", "5", "soon")}

\* five well-formed rows and a malformed one
SixRows ==
    <<ScrapedRow("a1", "5", TwitterDate), ScrapedRow("a2", "5", TwitterDate),
      ScrapedRow("a3", "many", TwitterDate), ScrapedRow("a4", "5", TwitterDate),
      ScrapedRow("a5", "5", "soon"), ScrapedRow("a6", "5", TwitterDate)>>

RowLists == UNION {[1..n -> ScrapedRows] : n \in {1, 2}} \cup {SixRows}

\* int(s): the number, or -1 for the ValueError it raises
int(s) == IF s = "5" THEN 5 ELSE -1

\* the date column: the parsed date, or datetime.utcnow() for a text that
\* strptime rejects
tweet_date(s) == IF s = TwitterDate THEN s ELSE "utcnow"

\* created_at, default=datetime.utcnow: the clock does not advance during
\* the calls of a behaviour
created_at == CHOOSE t \in Times : TRUE

\* the per-row loop: the ScrapedTweet objects added to the session, and the
\* rows whose construction raised
BuildRowsMut(tweets_data, execution_id, i, acc) ==
    [success_count |-> Len(tweets_data), error_count |-> 0, errors |-> <<>>,
     ops |-> [j \in 1..Len(tweets_data) |->
                InsertOp("scraped_tweets", tweets_data[j].Tweet_ID,
                         [execution_id |-> execution_id,
                          likes |-> int(tweets_data[j].Likes),
                          date |-> tweet_date(tweets_data[j].Date),
                          created_at |-> created_at])]]
RECURSIVE BuildRows(_, _, _, _)
BuildRows(tweets_data, execution_id, i, acc) ==
    IF i > Len(tweets_data) THEN acc
    ELSE LET tweet_data == tweets_data[i]
         IN  IF int(tweet_data.Likes) < 0
             THEN BuildRows(tweets_data, execution_id, i + 1,
                            [acc EXCEPT !.error_count = @ + 1,
                                        !.errors = Append(@, tweet_data.Tweet_ID)])
             ELSE BuildRows(tweets_data, execution_id, i + 1,
                            [acc EXCEPT !.success_count = @ + 1,
                                        !.ops = Append(@,
                                            InsertOp("scraped_tweets", tweet_data.Tweet_ID,
                                                     [execution_id |-> execution_id,
                                                      likes |-> int(tweet_data.Likes),
                                                      date |-> tweet_date(tweet_data.Date),
                                                      created_at |-> created_at]))])

\* (success_count, error_count, errors) and the store after the call
SaveScrapedMut(db, tweets_data, execution_id, commitFails) ==
    LET built == BuildRows(tweets_data, execution_id, 1,
                           [success_count |-> 0, error_count |-> 0,
                            errors |-> <<>>, ops |-> <<>>])
        r == Flush(db, built.ops, 1, IF commitFails THEN Len(built.ops) + 1 ELSE 0)
    IN  [db |-> r.db, success_count |-> IF r.ok THEN built.success_count ELSE 0,
         error_count |-> IF r.ok THEN built.error_count ELSE Len(tweets_data),
         errors |-> IF r.ok THEN built.errors ELSE <<"Database error">>]
SaveScraped(db, tweets_data, execution_id, commitFails) ==
    LET built == BuildRows(tweets_data, execution_id, 1,
                           [success_count |-> 0, error_count |-> 0,
                            errors |-> <<>>, ops |-> <<>>])
        r == IF built.success_count > 0
             THEN Commit(db, built.ops, IF commitFails THEN Len(built.ops) + 1 ELSE 0)
             ELSE [ok |-> TRUE, db |-> db]
    IN  IF r.ok
        THEN [db |-> r.db, success_count |-> built.success_count,
              error_count |-> built.error_count, errors |-> built.errors]
        ELSE [db |-> r.db, success_count |-> 0,
              error_count |-> Len(tweets_data), errors |-> <<"Database error">>]

save_scraped_tweets ==
    /\ nops < MaxOps
    /\ nops' = nops + 1
    /\ UNCHANGED <<schema, inflight>>
    /\ \E tweets_data \in RowLists, execution_id \in ExecutionIds,
          fault \in {"none", "commit"} :
         LET res == SaveScraped(DB, tweets_data, execution_id, fault = "commit")
         IN  /\ scraped_tweets' = res.db.scraped_tweets
             /\ UNCHANGED <<campaigns, tweets>>
             /\ last' = [NoLast EXCEPT !.op = "bulk", !.batch = execution_id,
                                       !.rows = tweets_data,
                                       !.orig = [i \in 1..Len(tweets_data) |->
                                                    tweets_data[i].Tweet_ID],
                                       !.ok = (res.success_count > 0), !.fault = fault,
                                       !.count = res.success_count,
                                       !.error_count = res.error_count,
                                       !.errors = res.errors,
                                       !.exits = <<Exit(res.errors = <<"Database error">>)>>]

-----------------------------------------------------------------------------
(* check_duplicate_tweet, the ingestion endpoint of app.py *)

\* the rows of the requests and their tweets arrays
IngestRows ==
    {ScrapedRow("x1", "5", TwitterDate), ScrapedRow("y1", "5", TwitterDate),
     ScrapedRow("y1", "many", TwitterDate)}
IngestLists == UNION {[1..n -> IngestRows] : n \in {1, 2}}

\* the calls of a behaviour of the ingestion endpoint
MaxIngestOps == 2

\* the stores the endpoint is called on: the empty one, and the one a
\* save_scraped_tweets call of a single row under e1 leaves
IngestStores ==
    {EmptyTable,
     SaveScraped([campaigns |-> EmptyTable, tweets |-> EmptyTable,
                  scraped_tweets |-> EmptyTable],
                 <<ScrapedRow("x1", "5", TwitterDate)>>, "e1",
                 FALSE).db.scraped_tweets}

\* [tweet for tweet in tweets if tweet['Tweet ID'] in new_ids]
NewTweets(request_tweets, new_ids) ==
    SelectSeq(request_tweets, LAMBDA tweet : tweet.Tweet_ID \in Range(new_ids))

\* the check, then the save of the rows whose id came back as new; nothing
\* is saved when no id is new
check_duplicate_tweet ==
    /\ nops < MaxOps
    /\ nops' = nops + 1
    /\ UNCHANGED <<schema, inflight>>
    /\ \E request_tweets \in IngestLists, execution_id \in ExecutionIds :
       \E check_fault \in CheckFaults(execution_id),
          save_fault \in {"none", "commit"} :
         LET tweet_ids == [i \in 1..Len(request_tweets) |->
                              request_tweets[i].Tweet_ID]
             chk == CheckDuplicates(scraped_tweets, tweet_ids, execution_id,
                                    check_fault # "none")
             new_tweets == NewTweets(request_tweets, chk.new_ids)
             res == IF new_tweets # <<>>
                    THEN SaveScraped(DB, new_tweets, execution_id,
                                     save_fault = "commit")
                    ELSE [db |-> DB, success_count |-> 0, error_count |-> 0,
                          errors |-> <<>>]
         IN  /\ scraped_tweets' = res.db.scraped_tweets
             /\ UNCHANGED <<campaigns, tweets>>
             /\ last' = [NoLast EXCEPT
                            !.op = "ingest", !.batch = execution_id,
                            !.rows = request_tweets, !.orig = tweet_ids,
                            !.fault = <<check_fault, save_fault>>,
                            !.existing_ids = chk.existing_ids,
                            !.new_ids = chk.new_ids,
                            !.n = Len(new_tweets),
                            !.ok = (res.success_count > 0),
                            !.count = res.success_count,
                            !.error_count = res.error_count,
                            !.errors = res.errors,
                            !.exits =
                                <<Exit(check_fault # "none")>>
                                \o (IF new_tweets # <<>>
                                    THEN <<Exit(res.errors = <<"Database error">>)>>
                                    ELSE <<>>)]

-----------------------------------------------------------------------------
(* get_scraped_tweets *)

\* an optional integer argument: <<>> for None, <<k>> for k; "if limit:" and
\* "if offset:" take None and 0 alike
Given(arg) == arg # <<>> /\ arg[1] # 0
Limits == {<<>>, <<0>>, <<1>>, <<2>>}
Offsets == {<<>>, <<0>>, <<1>>}

\* query.filter(ScrapedTweet.execution_id == execution_id), when one is given
Matching(tbl, execution_id) ==
    IF execution_id # NoExecution
    THEN {k \in DOMAIN tbl : tbl[k].execution_id = execution_id}
    ELSE DOMAIN tbl

\* the dates in ascending order: the parsed date of a tweet is before the
\* utcnow() of its ingestion
DateKey(d) == IF d = TwitterDate THEN 1 ELSE 2

\* row a is before row b under ORDER BY date DESC, created_at DESC
Before(tbl, a, b) ==
    \/ DateKey(tbl[a].date) > DateKey(tbl[b].date)
    \/ /\ tbl[a].date = tbl[b].date
       /\ tbl[a].created_at > tbl[b].created_at

\* the orders the store may return the rows S in: any order that agrees with
\* ORDER BY; rows that tie on both columns come in an order the store chooses
RECURSIVE Ordered(_, _)
Ordered(tbl, S) ==
    IF S = {} THEN {<<>>}
    ELSE UNION {{<<k>> \o rest : rest \in Ordered(tbl, S \ {k})} :
                   k \in {a \in S : \A b \in S : ~Before(tbl, b, a)}}

\* query.offset(offset).limit(limit).all() of the ordered rows
Page(order, limit, offset) ==
    LET first == IF Given(offset) THEN offset[1] + 1 ELSE 1
        n == Len(order)
        end == IF Given(limit) /\ first + limit[1] - 1 < n
               THEN first + limit[1] - 1 ELSE n
    IN  SubSeq(order, first, end)

get_scraped_tweets ==
    /\ nops < MaxOps
    /\ nops' = nops + 1
    /\ UNCHANGED <<campaigns, tweets, scraped_tweets, schema, inflight>>
    /\ \E limit \in Limits, offset \in Offsets,
          execution_id \in ExecutionIds \cup {NoExecution},
          fault \in {"none", "query"} :
         LET found == Matching(scraped_tweets, execution_id)
         IN  \E order \in Ordered(scraped_tweets, found) :
                last' = [NoLast EXCEPT !.op = "list", !.batch = execution_id,
                                       !.limit = limit, !.offset = offset,
                                       !.fault = fault,
                                       !.ok = (fault = "none"),
                                       !.ids = IF fault = "none"
                                               THEN Page(order, limit, offset)
                                               ELSE <<>>,
                                       !.count = IF fault = "none"
                                                 THEN Cardinality(found) ELSE 0,
                                       !.exits = <<Exit(fault = "query")>>]

-----------------------------------------------------------------------------
(* The schema and its migrations: get_database_version,                     *)
(* set_database_version, migrate_database, init_database.                   *)

CURRENT_DB_VERSION == 3

\* Base.metadata: the tables of the declared classes
AllTables == {"database_version", "campaigns", "tweets", "scraped_tweets"}

\* engine: _engine is not None; tables: the tables of the store;
\* display_name: campaigns has the column; versions: the version column of
\* the rows of database_version, in id order
Schema(engine, tables, display_name, versions) ==
    [engine |-> engine, tables |-> tables, display_name |-> display_name,
     versions |-> versions]

\* the store init_database leaves when it starts from nothing
FreshSchema == Schema(TRUE, AllTables, TRUE, <<CURRENT_DB_VERSION>>)

\* the stores a process can start on, before its first init_database: none,
\* one without version tracking, one left by each release of the schema, and
\* one written by a later release
StartSchemas ==
    {Schema(FALSE, {}, FALSE, <<>>),
     Schema(FALSE, {"campaigns", "tweets"}, FALSE, <<>>),
     Schema(FALSE, {"database_version", "campaigns", "tweets"}, FALSE, <<1>>),
     Schema(FALSE, AllTables, FALSE, <<2>>),
     Schema(FALSE, AllTables, TRUE, <<CURRENT_DB_VERSION>>),
     Schema(FALSE, AllTables, TRUE, <<CURRENT_DB_VERSION + 1>>)}

\* the storage faults of one migration: none, the version query raises, a
\* CREATE TABLE raises, set_database_version(2, ...) or
\* set_database_version(3, ...) fails, the ALTER TABLE raises, the COMMIT of
\* the migration session raises
MigrateFaults == {"none", "read", "create", "set2", "set3", "alter", "commit"}

get_database_version(sch, readFails) ==
    IF ~sch.engine THEN 0
    ELSE IF "database_version" \notin sch.tables THEN 0
    ELSE IF readFails THEN 0
    ELSE IF sch.versions # <<>> THEN Head(sch.versions)
    ELSE 0

\* delete the version rows, add one, commit; False and the rows as they were
\* when that raises
SetDatabaseVersionMut(sch, version, fails) ==
    IF ~sch.engine \/ fails \/ "database_version" \notin sch.tables
    THEN [ok |-> FALSE, sch |-> sch]
    ELSE [ok |-> TRUE, sch |-> [sch EXCEPT !.versions = <<version>> \o @]]
SetDatabaseVersion(sch, version, fails) ==
    IF ~sch.engine THEN [ok |-> FALSE, sch |-> sch]
    ELSE IF fails \/ "database_version" \notin sch.tables
    THEN [ok |-> FALSE, sch |-> sch]
    ELSE [ok |-> TRUE, sch |-> [sch EXCEPT !.versions = <<version>>]]

\* current_version == 0: create_all, outside any try, then the version
\* record, whose result is not looked at
CreateAll(sch, fault) ==
    IF fault = "create" /\ sch.tables # AllTables
    THEN [ok |-> FALSE, raised |-> TRUE, sch |-> sch]
    ELSE LET created ==
                 [sch EXCEPT !.tables = AllTables,
                             !.display_name =
                                 IF "campaigns" \in sch.tables THEN @ ELSE TRUE]
         IN  [ok |-> TRUE, raised |-> FALSE,
              sch |-> SetDatabaseVersion(created, CURRENT_DB_VERSION,
                                           fault = "set3").sch]

\* if current_version < 2: the scraped_tweets table and the version record
MigrateTo2(sch, current_version, fault) ==
    IF current_version >= 2 THEN [ok |-> TRUE, sch |-> sch]
    ELSE IF "scraped_tweets" \notin sch.tables /\ fault = "create"
    THEN [ok |-> FALSE, sch |-> sch]
    ELSE [ok |-> TRUE,
          sch |-> SetDatabaseVersion(
                      [sch EXCEPT !.tables = @ \cup {"scraped_tweets"}],
                      2, fault = "set2").sch]

\* if current_version < 3: the display_name column, added in the session of
\* the migration, and the version record; altered says whether the ALTER
\* TABLE has work to commit
MigrateTo3(sch, current_version, fault) ==
    IF current_version >= 3 THEN [ok |-> TRUE, altered |-> FALSE, sch |-> sch]
    ELSE IF sch.display_name
    THEN [ok |-> TRUE, altered |-> FALSE,
          sch |-> SetDatabaseVersion(sch, 3, fault = "set3").sch]
    ELSE IF "campaigns" \notin sch.tables \/ fault = "alter"
    THEN [ok |-> FALSE, altered |-> FALSE, sch |-> sch]
    ELSE [ok |-> TRUE, altered |-> TRUE,
          sch |-> SetDatabaseVersion([sch EXCEPT !.display_name = TRUE],
                                       3, fault = "set3").sch]

\* the incremental migrations, in one try: an exception rolls back the
\* session of the migration, which undoes the ALTER TABLE and nothing else
Incremental(sch, current_version, fault) ==
    LET s2 == MigrateTo2(sch, current_version, fault)
        s3 == MigrateTo3(s2.sch, current_version, fault)
    IN  IF ~s2.ok THEN [ok |-> FALSE, raised |-> FALSE, sch |-> s2.sch]
        ELSE IF ~s3.ok THEN [ok |-> FALSE, raised |-> FALSE, sch |-> s3.sch]
        ELSE IF s3.altered /\ fault = "commit"
        THEN [ok |-> FALSE, raised |-> FALSE,
              sch |-> [s3.sch EXCEPT !.display_name = FALSE]]
        ELSE [ok |-> TRUE, raised |-> FALSE, sch |-> s3.sch]

\* migrate_database(): its result, whether it raised, the store after it
Migrate(sch, fault) ==
    IF ~sch.engine THEN [ok |-> FALSE, raised |-> FALSE, sch |-> sch]
    ELSE LET current_version == get_database_version(sch, fault = "read")
         IN  IF current_version = CURRENT_DB_VERSION
             THEN [ok |-> TRUE, raised |-> FALSE, sch |-> sch]
             ELSE IF current_version = 0 THEN CreateAll(sch, fault)
             ELSE Incremental(sch, current_version, fault)

migrate_database ==
    /\ nops < MaxOps
    /\ nops' = nops + 1
    /\ UNCHANGED <<campaigns, tweets, scraped_tweets, inflight>>
    /\ \E fault \in MigrateFaults :
         LET r == Migrate(schema, fault)
         IN  /\ schema' = r.sch
             /\ last' = [NoLast EXCEPT !.op = "migrate", !.fault = fault,
                                       !.ok = r.ok, !.raised = r.raised]

\* init_database(): the engine, the database_version table, the migrations;
\* nothing is caught here
InitDatabase(sch, fault) ==
    IF fault = "connect"
    THEN [ok |-> FALSE, raised |-> TRUE, sch |-> [sch EXCEPT !.engine = TRUE]]
    ELSE Migrate([sch EXCEPT !.engine = TRUE,
                             !.tables = @ \cup {"database_version"}], fault)

init_database ==
    /\ nops < MaxOps
    /\ nops' = nops + 1
    /\ UNCHANGED <<campaigns, tweets, scraped_tweets, inflight>>
    /\ \E fault \in MigrateFaults \cup {"connect"} :
         LET r == InitDatabase(schema, fault)
         IN  /\ schema' = r.sch
             /\ last' = [NoLast EXCEPT !.op = "init_database", !.fault = fault,
                                       !.ok = r.ok, !.raised = r.raised]

\* the versions a caller of set_database_version records
Versions == 1..(CURRENT_DB_VERSION + 1)

set_database_version ==
    /\ nops < MaxOps
    /\ nops' = nops + 1
    /\ UNCHANGED <<campaigns, tweets, scraped_tweets, inflight>>
    /\ \E version \in Versions, fault \in {"none", "commit"} :
         LET r == SetDatabaseVersion(schema, version, fault = "commit")
         IN  /\ schema' = r.sch
             /\ last' = [NoLast EXCEPT !.op = "set_database_version", !.n = version,
                                       !.fault = fault, !.ok = r.ok]

-----------------------------------------------------------------------------

Init ==
    /\ campaigns = EmptyTable
    /\ tweets = EmptyTable
    /\ scraped_tweets = EmptyTable
    /\ schema = FreshSchema
    /\ last = NoLast
    /\ nops = 0
    /\ inflight = NoCalls

Next ==
    \/ save_campaign_data
    \/ get_campaign_data
    \/ update_tweet_content
    \/ update_tweet_status
    \/ delete_campaign_cascade

Spec == Init /\ [][Next]_vars

\* the calls of the ingestion caller alone
NextScraped ==
    \/ check_duplicate_scraped_tweets
    \/ save_scraped_tweets

SpecScraped == Init /\ [][NextScraped]_vars

\* the ingestion and the listing of scraped tweets
NextList ==
    \/ save_scraped_tweets
    \/ get_scraped_tweets

SpecList == Init /\ [][NextList]_vars

\* the ingestion endpoint and the duplicate check
InitIngest ==
    /\ campaigns = EmptyTable
    /\ tweets = EmptyTable
    /\ scraped_tweets \in IngestStores
    /\ schema = FreshSchema
    /\ last = NoLast
    /\ nops = 0
    /\ inflight = NoCalls

NextIngest ==
    \/ nops < MaxIngestOps /\ check_duplicate_tweet
    \/ nops < MaxIngestOps /\ check_duplicate_scraped_tweets

SpecIngest == InitIngest /\ [][NextIngest]_vars

\* saves and deletes on a store that holds a campaign, its -v2 and its -v3
InitReuse ==
    /\ campaigns = ReuseCampaigns
    /\ tweets = ReuseTweets
    /\ scraped_tweets = EmptyTable
    /\ schema = FreshSchema
    /\ last = NoLast
    /\ nops = 0
    /\ inflight = NoCalls

NextReuse ==
    \/ nops < MaxReuseOps /\ save_campaign_data
    \/ nops < MaxReuseOps /\ delete_campaign_cascade

SpecReuse == InitReuse /\ [][NextReuse]_vars

\* two save_campaign_data calls, their steps interleaved
InitRace ==
    /\ \E store \in RaceStores :
          campaigns = store.campaigns /\ tweets = store.tweets
    /\ scraped_tweets = EmptyTable
    /\ schema = FreshSchema
    /\ last = NoLast
    /\ nops = 0
    /\ inflight = NoCalls

NextRace ==
    \E p \in Procs :
        \/ RaceResolveBatch(p)
        \/ RaceResolveTweet(p)
        \/ RaceCommit(p)

SpecRace == InitRace /\ [][NextRace]_vars

\* the schema functions, on every store a process can start on
InitMigrate ==
    /\ campaigns = EmptyTable
    /\ tweets = EmptyTable
    /\ scraped_tweets = EmptyTable
    /\ schema \in StartSchemas
    /\ last = NoLast
    /\ nops = 0
    /\ inflight = NoCalls

NextMigrate ==
    \/ init_database
    \/ migrate_database
    \/ set_database_version

SpecMigrate == InitMigrate /\ [][NextMigrate]_vars

-----------------------------------------------------------------------------
(* Properties of save_campaign_data and the resolver *)

\* C1: every save_campaign_data call that reports success stores its campaign
\* under a batch id that was not stored before the call, and the campaign rows
\* stored before the call (the first call's among them) are still stored under
\* their batch ids, unchanged.
C1_DistinctBatchIds ==
    [][(nops' # nops /\ last'.op = "save" /\ last'.ok) =>
          /\ last'.unique \notin DOMAIN campaigns
          /\ DOMAIN campaigns' = DOMAIN campaigns \cup {last'.unique}
          /\ \A k \in DOMAIN campaigns : campaigns'[k] = campaigns[k]]_vars

\* three successful saves, the last of batch-001 stored as batch-001-v3
C1_Witness ==
    /\ last.op = "save" /\ last.ok /\ last.batch = Batch001
    /\ last.unique = Append(Batch001, V(3))
    /\ DOMAIN campaigns = {Batch001, Batch001v2, Append(Batch001, V(3))}

\* C2: when its lookups succeed the resolver returns the desired id if it is
\* not stored and otherwise the desired id with "-vN" for the smallest N in
\* 2..99 whose candidate is not stored; save_campaign_data resolves the batch
\* id against all campaigns and every tweet id against all tweets, so that
\* batch-001 {t1, t3} saved over batch-001 {t1, t2} is stored as batch-001-v2
\* with the tweets t1-v2 and t3.
C2_ResolverRule ==
    [][(nops' # nops /\ last'.op = "save"
        /\ last'.fault \notin {"lookup_batch", "lookup_tweet"}) =>
          LET Free(desired, keys, k) == Append(desired, V(k)) \notin keys
              Resolved(desired, keys) ==
                  IF desired \notin keys THEN desired
                  ELSE Append(desired,
                              V(CHOOSE k \in 2..99 :
                                   /\ Free(desired, keys, k)
                                   /\ \A m \in 2..(k - 1) : ~Free(desired, keys, m)))
          IN  /\ last'.unique = Resolved(last'.batch, DOMAIN campaigns)
              /\ \A i \in 1..last'.n :
                    last'.ids[i] = Resolved(last'.orig[i], DOMAIN tweets)
              /\ ( /\ DOMAIN campaigns = {Batch001}
                   /\ DOMAIN tweets = {T1, T2}
                   /\ last'.batch = Batch001
                   /\ last'.orig = <<T1, T3>>
                   /\ last'.ok )
                  => /\ DOMAIN campaigns' = {Batch001, Batch001v2}
                     /\ DOMAIN tweets' = {T1, T2, T1v2, T3}
                     /\ tweets'[T1v2].campaign_batch = Batch001v2
                     /\ tweets'[T3].campaign_batch = Batch001v2
                     /\ tweets'[T1].campaign_batch = Batch001
                     /\ tweets'[T2].campaign_batch = Batch001]_vars

\* the scenario: batch-001 {t1, t2}, then batch-001 {t1, t3}
C2_Witness ==
    /\ last.op = "save" /\ last.ok /\ last.fault = "none"
    /\ last.batch = Batch001 /\ last.unique = Batch001v2
    /\ last.orig = <<T1, T3>> /\ last.ids = <<T1v2, T3>>
    /\ DOMAIN tweets = {T1, T2, T1v2, T3}
    /\ tweets[T1].campaign_batch = Batch001
    /\ tweets[T1v2].campaign_batch = Batch001v2

\* C3: on every exit path of the resolver, the path of a failing lookup
\* included, the identifier it returns for the batch and for every tweet is
\* not the key of a stored row.
C3_ResolvedIdsNotStored ==
    [][(nops' # nops /\ last'.op = "save") =>
          /\ last'.unique \notin DOMAIN campaigns
          /\ \A i \in 1..last'.n : last'.ids[i] \notin DOMAIN tweets]_vars

\* C4: save_campaign_data is atomic: on success the campaign row and every
\* tweet row of the payload are stored, under the resolved ids and with the
\* resolved batch id as campaign reference, and nothing else changes; on
\* failure neither table changes.
C4_SaveAtomic ==
    [][(nops' # nops /\ last'.op = "save") =>
          IF last'.ok
          THEN /\ DOMAIN campaigns' = DOMAIN campaigns \cup {last'.unique}
               /\ campaigns'[last'.unique].tweet_count = last'.n
               /\ DOMAIN tweets' = DOMAIN tweets \cup {last'.ids[i] : i \in 1..last'.n}
               /\ Cardinality(DOMAIN tweets') = Cardinality(DOMAIN tweets) + last'.n
               /\ \A i \in 1..last'.n :
                     tweets'[last'.ids[i]].campaign_batch = last'.unique
               /\ \A k \in DOMAIN campaigns : campaigns'[k] = campaigns[k]
               /\ \A k \in DOMAIN tweets : tweets'[k] = tweets[k]
          ELSE campaigns' = campaigns /\ tweets' = tweets]_vars

\* a save that failed on its second INSERT: the batch id was free and the
\* first tweet id, left unresolved by a failing lookup, was stored
C4_Witness ==
    /\ last.op = "save" /\ ~last.ok /\ last.fault = "lookup_tweet"
    /\ last.unique \notin DOMAIN campaigns
    /\ last.n = 2 /\ last.ids[1] \in DOMAIN tweets
    /\ DOMAIN campaigns # {}

\* C5: after a successful save, get_campaign_data of the stored batch id
\* returns tweet_count = len(tweets) of the payload, whatever tweet_count the
\* payload declared; and every get_campaign_data that finds the campaign
\* returns as tweet_count the number of stored tweets referencing it and as
\* tweets exactly those rows.
C5_TweetCountFromRows ==
    /\ (last.op = "save" /\ last.ok) =>
          LET res == CampaignDict(DB, last.unique, FALSE)
          IN  /\ res.found
              /\ res.tweet_count = last.n
              /\ {x.id : x \in res.tweets} = {last.ids[i] : i \in 1..last.n}
    /\ (last.op = "get" /\ last.ok) =>
          LET refs == {k \in DOMAIN tweets : tweets[k].campaign_batch = last.batch}
          IN  /\ last.res.tweet_count = Cardinality(refs)
              /\ {x.id : x \in last.res.tweets} = refs
              /\ Cardinality(last.res.tweets) = Cardinality(refs)
              /\ \A x \in last.res.tweets :
                    /\ x.content = tweets[x.id].content
                    /\ x.character_count = tweets[x.id].character_count
                    /\ x.status = tweets[x.id].status
                    /\ x.is_edited = tweets[x.id].is_edited
                    /\ x.posted_date = tweets[x.id].posted_date

\* a campaign of two tweets that declared tweet_count 1, stored beside
\* another campaign that has tweets
C5_Witness ==
    /\ last.op = "save" /\ last.ok /\ last.n = 2 /\ last.declared = 1
    /\ last.unique = Batch001v2
    /\ \E k \in DOMAIN tweets : tweets[k].campaign_batch = Batch001

-----------------------------------------------------------------------------
(* Properties of the tweet updates and of delete_campaign_cascade *)

\* C6: when update_tweet_content finds a tweet with the given id under the
\* given campaign (and the store does not fail), it returns found and the
\* stored tweet has the new content, character_count = len(content) (5 for
\* "hello") and is_edited = true; its other columns and every other tweet row
\* are unchanged.  A call that does not report found changes nothing.
C6_ContentUpdate ==
    [][(nops' # nops /\ last'.op = "content") =>
          LET b == last'.batch
              t == last'.tid
              c == last'.arg
          IN  /\ (last'.fault = "none" /\ t \in DOMAIN tweets
                  /\ tweets[t].campaign_batch = b) => last'.ok
              /\ last'.ok =>
                    /\ DOMAIN tweets' = DOMAIN tweets
                    /\ tweets'[t].content = c
                    /\ tweets'[t].character_count = Len(c)
                    /\ (c = "hello" => tweets'[t].character_count = 5)
                    /\ tweets'[t].is_edited = TRUE
                    /\ tweets'[t].campaign_batch = tweets[t].campaign_batch
                    /\ tweets'[t].status = tweets[t].status
                    /\ tweets'[t].posted_date = tweets[t].posted_date
                    /\ \A k \in DOMAIN tweets \ {t} : tweets'[k] = tweets[k]
              /\ ~last'.ok => tweets' = tweets
              /\ campaigns' = campaigns]_vars

\* "hi" with a declared count of 7 was replaced by "hello"; the campaign's
\* other tweet is as it was saved
C6_Witness ==
    /\ last.op = "content" /\ last.ok /\ last.arg = "hello" /\ last.tid = T2
    /\ tweets[T2].content = "hello" /\ tweets[T2].character_count = 5
    /\ tweets[T2].is_edited
    /\ T1 \in DOMAIN tweets /\ ~tweets[T1].is_edited /\ tweets[T1].content = "hi"

\* C7: update_tweet_status to "Posted" on an existing tweet stores the status
\* and a non-null posted timestamp; any other status is stored and leaves the
\* posted timestamp as it was; no status update clears a posted timestamp or
\* changes another row.
C7_PostedDateKept ==
    [][(nops' # nops /\ last'.op = "status") =>
          LET b == last'.batch
              t == last'.tid
              s == last'.arg
          IN  /\ (last'.fault = "none" /\ t \in DOMAIN tweets
                  /\ tweets[t].campaign_batch = b) => last'.ok
              /\ last'.ok =>
                    /\ tweets'[t].status = s
                    /\ (s = "Posted" => tweets'[t].posted_date # NULL)
                    /\ (s # "Posted" => tweets'[t].posted_date = tweets[t].posted_date)
              /\ DOMAIN tweets' = DOMAIN tweets
              /\ \A k \in DOMAIN tweets :
                    /\ tweets[k].posted_date # NULL => tweets'[k].posted_date # NULL
                    /\ (k # t \/ ~last'.ok) => tweets'[k] = tweets[k]]_vars

\* a posted tweet set back to Draft still has its posted timestamp
C7_Witness ==
    /\ last.op = "status" /\ last.ok /\ last.arg = "Draft"
    /\ tweets[last.tid].status = "Draft"
    /\ tweets[last.tid].posted_date # NULL

\* C8: a soft delete of an existing campaign removes no row: the campaign
\* row stays, with "[DELETED] " put before its previous description; every
\* tweet referencing it has status "Deleted" and is otherwise unchanged; the
\* rows of other campaigns are unchanged; the call reports success and the
\* number of tweets of the campaign.
C8_SoftDelete ==
    [][(nops' # nops /\ last'.op = "delete" /\ last'.arg = "soft"
        /\ last'.batch \in DOMAIN campaigns /\ last'.fault = "none") =>
          LET b == last'.batch
              refs == {k \in DOMAIN tweets : tweets[k].campaign_batch = b}
          IN  /\ last'.ok
              /\ last'.count = Cardinality(refs)
              /\ DOMAIN campaigns' = DOMAIN campaigns
              /\ DOMAIN tweets' = DOMAIN tweets
              /\ campaigns'[b].description = <<"[DELETED] ">> \o campaigns[b].description
              /\ campaigns'[b].tweet_count = campaigns[b].tweet_count
              /\ \A k \in DOMAIN campaigns \ {b} : campaigns'[k] = campaigns[k]
              /\ \A k \in refs :
                    tweets'[k] = [tweets[k] EXCEPT !.status = "Deleted"]
              /\ \A k \in DOMAIN tweets \ refs : tweets'[k] = tweets[k]]_vars

\* batch-001 with two tweets soft-deleted, beside a campaign whose tweets
\* are still drafts
C8_Witness ==
    /\ last.op = "delete" /\ last.arg = "soft" /\ last.ok /\ last.count = 2
    /\ last.batch = Batch001
    /\ campaigns[Batch001].description = <<"[DELETED] ", "promo">>
    /\ \A k \in DOMAIN tweets :
          tweets[k].campaign_batch = Batch001 => tweets[k].status = "Deleted"
    /\ \E k \in DOMAIN tweets :
          tweets[k].campaign_batch # Batch001 /\ tweets[k].status = "Draft"

\* C9: a hard delete of an existing campaign removes every tweet row
\* referencing it and the campaign row and returns the number of tweets
\* removed; afterwards get_campaign_data finds nothing, no tweet references the
\* batch, and the other rows are unchanged; and whatever a delete call does or
\* suffers, it never leaves tweets of a campaign row it removed.
C9_HardDelete ==
    [][(nops' # nops /\ last'.op = "delete") =>
          LET b == last'.batch
              refs == {k \in DOMAIN tweets : tweets[k].campaign_batch = b}
              after == [campaigns |-> campaigns', tweets |-> tweets',
                        scraped_tweets |-> scraped_tweets']
          IN  /\ (last'.arg = "hard" /\ b \in DOMAIN campaigns /\ last'.fault = "none") =>
                    /\ last'.ok
                    /\ last'.count = Cardinality(refs)
                    /\ DOMAIN campaigns' = DOMAIN campaigns \ {b}
                    /\ DOMAIN tweets' = DOMAIN tweets \ refs
                    /\ ~CampaignDict(after, b, FALSE).found
                    /\ \A k \in DOMAIN campaigns' : campaigns'[k] = campaigns[k]
                    /\ \A k \in DOMAIN tweets' : tweets'[k] = tweets[k]
              /\ (b \in DOMAIN campaigns /\ b \notin DOMAIN campaigns') =>
                    \A k \in DOMAIN tweets' : tweets'[k].campaign_batch # b
              /\ ~last'.ok => (campaigns' = campaigns /\ tweets' = tweets)]_vars

\* batch-001 and its two tweets were removed; batch-001-v2 and its tweets
\* are still stored
C9_Witness ==
    /\ last.op = "delete" /\ last.arg = "hard" /\ last.ok /\ last.count = 2
    /\ last.batch = Batch001
    /\ DOMAIN campaigns = {Batch001v2}
    /\ DOMAIN tweets # {}
    /\ \A k \in DOMAIN tweets : tweets[k].campaign_batch = Batch001v2

\* C16: an absent campaign or tweet is reported by the result, raises
\* nothing and changes nothing: get_campaign_data of a batch id that is not
\* stored returns None; update_tweet_content and update_tweet_status return
\* False when no tweet has both the given id and the given campaign
\* reference, a tweet with that id under another campaign included;
\* delete_campaign_cascade of a batch id that is not stored returns failure
\* with 0 affected rows.
C16_AbsentByResult ==
    [][(nops' # nops) =>
          LET b == last'.batch
              t == last'.tid
              unchanged == campaigns' = campaigns /\ tweets' = tweets
          IN  /\ (last'.op = "get" /\ b \notin DOMAIN campaigns) =>
                    /\ last'.res = NoResult /\ ~last'.ok
                    /\ ~last'.raised /\ unchanged
              /\ (last'.op \in {"content", "status"}
                  /\ ~(t \in DOMAIN tweets /\ tweets[t].campaign_batch = b)) =>
                    /\ ~last'.ok /\ ~last'.raised /\ unchanged
              /\ (last'.op = "delete" /\ b \notin DOMAIN campaigns) =>
                    /\ ~last'.ok /\ last'.count = 0
                    /\ ~last'.raised /\ unchanged]_vars

\* update_tweet_content of a tweet of batch-001 asked for under the stored
\* batch-001-v2 returns False
C16_Witness ==
    /\ last.op = "content" /\ ~last.ok /\ last.fault = "none"
    /\ last.batch = Batch001v2 /\ Batch001v2 \in DOMAIN campaigns
    /\ last.tid \in DOMAIN tweets
    /\ tweets[last.tid].campaign_batch = Batch001
    /\ tweets[last.tid].content = "hi" /\ ~tweets[last.tid].is_edited

\* C17: no call lets an exception leave the function: every call returns a
\* success/failure or found/not-found result.
C17_NothingRaises == ~last.raised

\* C18: in every save_campaign_data call the ids assigned to the tweets of
\* the payload are pairwise distinct, also when two tweets of the payload
\* have the same id, and none is the id of a stored tweet; and every tweet
\* the call stores references the resolved batch id of the call.
C18_TweetIdsUnique ==
    [][(nops' # nops /\ last'.op = "save" /\ ~last'.raised) =>
          /\ \A i, j \in 1..last'.n :
                i # j => last'.ids[i] # last'.ids[j]
          /\ \A i \in 1..last'.n : last'.ids[i] \notin DOMAIN tweets
          /\ last'.ok =>
                \A i \in 1..last'.n :
                   tweets'[last'.ids[i]].campaign_batch = last'.unique]_vars

\* C19: character_count is the length of the content in every tweet row
\* just written, by save_campaign_data whatever the payload declared and by
\* update_tweet_content.
C19_CharacterCount ==
    /\ (last.op = "save" /\ last.ok) =>
          \A i \in 1..last.n :
             tweets[last.ids[i]].character_count = Len(tweets[last.ids[i]].content)
    /\ (last.op = "content" /\ last.ok) =>
          tweets[last.tid].character_count = Len(tweets[last.tid].content)

\* C28: ingestion is idempotent under check-then-insert: after an ingestion
\* whose bulk insert reported every new row stored, a second duplicate check
\* of the same candidate list returns no new id, whatever execution id it is
\* given (the same, another, none), and a repeated ingestion of the same
\* rows stores no further row.
C28_IngestIdempotent ==
    [][(/\ nops' # nops
        /\ last.op = "ingest" /\ last.n > 0 /\ last.count = last.n) =>
          /\ (last'.op = "check" /\ last'.orig = last.orig
              /\ last'.fault = "none") => last'.new_ids = <<>>
          /\ (last'.op = "ingest" /\ last'.rows = last.rows) =>
                /\ scraped_tweets' = scraped_tweets
                /\ last'.fault[1] = "none" => last'.new_ids = <<>>
          /\ \A execution_id \in ExecutionIds \cup {NoExecution} :
                CheckDuplicates(scraped_tweets, last.orig, execution_id,
                                FALSE).new_ids = <<>>]_vars

\* two new rows were ingested under e1 and all reported stored; the second
\* check of the same list, under e2, finds both stored and none new
C28_Witness ==
    /\ last.op = "check" /\ last.fault = "none" /\ last.batch = "e2"
    /\ last.orig = <<"x1", "y1">> /\ last.new_ids = <<>>
    /\ last.existing_ids = {"x1", "y1"}
    /\ \A k \in {"x1", "y1"} :
          k \in DOMAIN scraped_tweets /\ scraped_tweets[k].execution_id = "e1"

\* C30: a soft-deleted campaign and its tweets keep occupying their ids, so
\* a later save of the same batch id and tweet ids is resolved to suffixed
\* ids; a hard delete frees the ids, so a later save of that batch id and
\* those tweet ids stores them unchanged; and a freed "-vN" below the
\* highest one in use is taken before a higher N: every "-vm" with m < N is
\* stored when "-vN" is assigned.  Saves whose lookups succeed.
C30_DeletedIdsReuse ==
    [][LET C30_Working(l) ==
               /\ l.op = "save" /\ ~l.raised
               /\ l.fault \notin {"lookup_batch", "lookup_tweet"}
       IN
       (nops' # nops) =>
        /\ (last'.op = "delete" /\ last'.ok /\ last'.arg = "soft") =>
              /\ DOMAIN campaigns' = DOMAIN campaigns
              /\ DOMAIN tweets' = DOMAIN tweets
        /\ (last'.op = "delete" /\ last'.ok /\ last'.arg = "hard") =>
              /\ last'.batch \notin DOMAIN campaigns'
              /\ TweetsOf(tweets, last'.batch) \cap DOMAIN tweets' = {}
        /\ (/\ last.op = "delete" /\ last.ok /\ last.arg = "soft"
            /\ C30_Working(last') /\ last'.batch = last.batch) =>
              /\ IsSuffixed(last'.unique, last.batch)
              /\ \A i \in 1..last'.n :
                    last'.orig[i] \in TweetsOf(tweets, last.batch) =>
                       IsSuffixed(last'.ids[i], last'.orig[i])
        /\ (/\ last.op = "delete" /\ last.ok /\ last.arg = "hard"
            /\ last.batch \in DOMAIN ReuseCampaigns
            /\ C30_Working(last') /\ last'.batch = last.batch
            /\ \A i \in 1..last'.n :
                  last'.orig[i] \in TweetsOf(ReuseTweets, last.batch)) =>
              /\ last'.unique = last.batch
              /\ last'.ids = last'.orig
              /\ last'.ok =>
                    /\ last.batch \in DOMAIN campaigns'
                    /\ \A i \in 1..last'.n :
                          /\ last'.orig[i] \in DOMAIN tweets'
                          /\ tweets'[last'.orig[i]].campaign_batch = last.batch
        /\ C30_Working(last') =>
              /\ \A k \in FirstCounter..MaxCounter :
                    last'.unique = Append(last'.batch, V(k)) =>
                       \A m \in 1..(k - 1) :
                          Suffixed(last'.batch, m) \in DOMAIN campaigns
              /\ \A i \in 1..last'.n : \A k \in FirstCounter..MaxCounter :
                    last'.ids[i] = Append(last'.orig[i], V(k)) =>
                       \A m \in 1..(k - 1) :
                          Suffixed(last'.orig[i], m) \in DOMAIN tweets]_vars

\* batch-001-v2 and its tweets were deleted for good while batch-001-v3 is
\* stored: the next save of batch-001 {t1, t2} is stored as batch-001-v2
\* with t1-v2 and t2-v2
C30_Witness ==
    /\ last.op = "save" /\ last.ok /\ last.fault = "none"
    /\ last.batch = Batch001 /\ last.unique = Batch001v2
    /\ last.ids = <<T1v2, Suffixed(T2, 2)>>
    /\ Suffixed(Batch001, ReuseSaves) \in DOMAIN campaigns
    /\ tweets[Suffixed(T1, ReuseSaves)].campaign_batch
          = Suffixed(Batch001, ReuseSaves)
    /\ tweets[T1v2].campaign_batch = Batch001v2

\* C26: when two save_campaign_data calls both passed the existence check
\* before either committed and resolved to the same batch id, then, both
\* having returned (no storage fault, generated_at well-formed), exactly one
\* of them reported success, the campaign row of that id is stored, and the
\* stored tweets that refer to it are those of the successful call.
C26_RaceOneWinner ==
    LET a == inflight[1]
        b == inflight[2]
    IN  ( /\ a.pc = "done" /\ b.pc = "done"
          /\ a.early /\ b.early /\ a.unique = b.unique
          /\ a.fault = "none" /\ b.fault = "none"
          /\ fromisoformat(a.campaign_data.generated_at)
          /\ fromisoformat(b.campaign_data.generated_at) )
        => /\ a.ok # b.ok
           /\ a.unique \in DOMAIN campaigns
           /\ TweetsOf(tweets, a.unique)
                 = Range(IF a.ok THEN a.ids ELSE b.ids)

C29_ReferentialIntegrity ==
    \A k \in DOMAIN tweets : tweets[k].campaign_batch \in DOMAIN campaigns

\* a hard delete has removed the suffixed campaign with its tweets while
\* the tweets of the first campaign are still stored and refer to it
C29_Witness ==
    /\ last.op = "delete" /\ last.arg = "hard" /\ last.ok /\ last.count > 0
    /\ last.batch = Batch001v2 /\ Batch001v2 \notin DOMAIN campaigns
    /\ \E k \in DOMAIN tweets : tweets[k].campaign_batch = Batch001
    /\ Batch001 \in DOMAIN campaigns

-----------------------------------------------------------------------------
(* Properties of the duplicate check *)

C11_CheckPartition ==
    [][(nops' # nops /\ last'.op = "check" /\ last'.fault = "none") =>
          LET tweet_ids == last'.orig
              execution_id == last'.batch
              tagged == IF execution_id = NoExecution THEN {}
                        ELSE {k \in DOMAIN scraped_tweets :
                                 scraped_tweets[k].execution_id = execution_id}
              stored == {tweet_ids[i] : i \in 1..Len(tweet_ids)}
                        \cap DOMAIN scraped_tweets
              kept == {i \in 1..Len(tweet_ids) :
                          tweet_ids[i] \notin last'.existing_ids}
              \* the position in tweet_ids of the j-th new id
              pos(j) == CHOOSE i \in kept :
                           Cardinality({m \in kept : m < i}) = j - 1
          IN  /\ last'.existing_ids = tagged \cup stored
              /\ Len(last'.new_ids) = Cardinality(kept)
              /\ \A j \in 1..Len(last'.new_ids) :
                    last'.new_ids[j] = tweet_ids[pos(j)]
              /\ Range(last'.new_ids) \subseteq Range(tweet_ids)
              /\ Range(last'.new_ids) \cap last'.existing_ids = {}
              /\ scraped_tweets' = scraped_tweets]_vars

\* x1 is stored under e1; the candidates y1, x1 checked under e2 give
\* existing_ids {x1} and new_ids [y1]
C11_Witness ==
    /\ last.op = "check" /\ last.fault = "none" /\ last.batch = "e2"
    /\ last.orig = <<"y1", "x1">>
    /\ DOMAIN scraped_tweets = {"x1"} /\ scraped_tweets["x1"].execution_id = "e1"
    /\ last.existing_ids = {"x1"} /\ last.new_ids = <<"y1">>

\* C20: a duplicate check one of whose queries raises, the STEP 1 query or the
\* STEP 2 query, returns no existing id and the whole candidate list as
\* new_ids, raises nothing and leaves the store unchanged.
C20_CheckFailsOpen ==
    [][(nops' # nops /\ last'.op = "check" /\ last'.fault # "none") =>
          /\ last'.existing_ids = {}
          /\ last'.new_ids = last'.orig
          /\ ~last'.raised
          /\ scraped_tweets' = scraped_tweets]_vars

\* x1 is stored under e1; the check of x1, y1 under e1 whose STEP 2 query
\* raises returns both as new
C20_Witness ==
    /\ last.op = "check" /\ last.fault = "step2" /\ last.batch = "e1"
    /\ last.orig = <<"x1", "y1">> /\ last.new_ids = <<"x1", "y1">>
    /\ last.existing_ids = {}
    /\ "x1" \in DOMAIN scraped_tweets /\ scraped_tweets["x1"].execution_id = "e1"

-----------------------------------------------------------------------------
(* Properties of save_scraped_tweets *)

\* C12: save_scraped_tweets handles its rows one by one: a row whose
\* construction raises adds one entry to errors and is skipped, the rows after
\* it are still processed; when the transaction does not fail (no failing
\* COMMIT, no constructed row whose tweet id is stored or occurs twice),
\* success_count + error_count = len(rows), len(errors) = error_count, and
\* exactly the constructed rows are stored, beside the rows stored before;
\* five well-formed rows and a malformed one give 5 and one error entry.
C12_RowIsolation ==
    [][(nops' # nops /\ last'.op = "bulk" /\ last'.fault = "none") =>
          LET rows == last'.rows
              built == {i \in 1..Len(rows) : int(rows[i].Likes) >= 0}
              ids == {rows[i].Tweet_ID : i \in built}
              conflict == \/ ids \cap DOMAIN scraped_tweets # {}
                          \/ Cardinality(ids) # Cardinality(built)
          IN  ~conflict =>
                /\ last'.count = Cardinality(built)
                /\ last'.error_count = Len(rows) - Cardinality(built)
                /\ last'.count + last'.error_count = Len(rows)
                /\ Len(last'.errors) = last'.error_count
                /\ DOMAIN scraped_tweets' = DOMAIN scraped_tweets \cup ids
                /\ \A i \in built :
                      scraped_tweets'[rows[i].Tweet_ID].execution_id = last'.batch
                /\ \A k \in DOMAIN scraped_tweets :
                      scraped_tweets'[k] = scraped_tweets[k]
                /\ (Len(rows) = 6 /\ Cardinality(built) = 5) =>
                      (last'.count = 5 /\ Len(last'.errors) = 1)]_vars

\* the six rows, the third malformed, saved into a store that holds x1: the
\* rows before and after the malformed one are stored
C12_Witness ==
    /\ last.op = "bulk" /\ last.fault = "none" /\ last.rows = SixRows
    /\ last.count = 5 /\ last.error_count = 1 /\ Len(last.errors) = 1
    /\ DOMAIN scraped_tweets = {"x1", "a1", "a2", "a4", "a5", "a6"}

\* C13: save_scraped_tweets stores all or nothing: either every constructed
\* row of the call is stored and success_count is their number, or the store
\* is unchanged; when the transaction fails (a failing COMMIT, a constructed
\* row whose tweet id is stored or occurs twice in the call) the store is
\* unchanged, success_count = 0 and error_count = len(rows).
C13_AllOrNothing ==
    [][(nops' # nops /\ last'.op = "bulk") =>
          LET rows == last'.rows
              built == {i \in 1..Len(rows) : int(rows[i].Likes) >= 0}
              ids == {rows[i].Tweet_ID : i \in built}
              failed == /\ built # {}
                        /\ \/ last'.fault = "commit"
                           \/ ids \cap DOMAIN scraped_tweets # {}
                           \/ Cardinality(ids) # Cardinality(built)
          IN  /\ \/ /\ DOMAIN scraped_tweets' = DOMAIN scraped_tweets \cup ids
                    /\ Cardinality(DOMAIN scraped_tweets') =
                          Cardinality(DOMAIN scraped_tweets) + Cardinality(built)
                    /\ last'.count = Cardinality(built)
                 \/ scraped_tweets' = scraped_tweets
              /\ failed =>
                    /\ scraped_tweets' = scraped_tweets
                    /\ last'.count = 0
                    /\ last'.error_count = Len(rows)]_vars

\* two well-formed rows with the same tweet id, which is not stored: nothing
\* of the call is stored and both rows are counted as errors
C13_Witness ==
    /\ last.op = "bulk" /\ last.fault = "none"
    /\ Len(last.rows) = 2 /\ last.rows[1] = ScrapedRow("y1", "5", TwitterDate)
    /\ last.rows[2] = ScrapedRow("y1", "5", "soon")
    /\ DOMAIN scraped_tweets = {"x1"}
    /\ last.count = 0 /\ last.error_count = 2

-----------------------------------------------------------------------------
(* Properties of the migrations *)

\* C14: migrate_database is idempotent: a call that follows a call that
\* reported success reports success and leaves the recorded version, the
\* tables and their columns as the first call left them.
C14_MigrateIdempotent ==
    [][(nops' # nops /\ last.op = "migrate" /\ last.ok
        /\ last'.op = "migrate" /\ last'.fault = "none") =>
          (last'.ok /\ schema' = schema)]_vars

\* C15: whenever migrate_database reports success, the recorded version is
\* CURRENT_DB_VERSION, whatever store it started on and also when writing the
\* version record failed.
C15_MigrateReachesTarget ==
    (last.op = "migrate" /\ last.ok) =>
        get_database_version(schema, FALSE) = CURRENT_DB_VERSION

\* C23: from a recorded version v with 0 < v < CURRENT_DB_VERSION,
\* migrate_database applies the steps of the versions v + 1 .. 3 in ascending
\* order and records the version of each step as it completes: when it
\* reports success the scraped_tweets table and the display_name column
\* exist and version 3 is recorded; when it reports failure no step after
\* the failed one has run and the recorded version is that of the last step
\* that completed, or v if none did.
C23_IncrementalSteps ==
    [][(nops' # nops /\ last'.op = "migrate" /\ schema.engine
        /\ get_database_version(schema, FALSE) \in 1..(CURRENT_DB_VERSION - 1)) =>
          LET v == get_database_version(schema, FALSE)
              recorded == get_database_version(schema', FALSE)
              step2 == v < 2 /\ "scraped_tweets" \in schema'.tables
              step3 == schema'.display_name
          IN  IF last'.ok
              THEN /\ "scraped_tweets" \in schema'.tables
                   /\ step3
                   /\ recorded = CURRENT_DB_VERSION
              ELSE /\ (v < 2 /\ ~step2) => ~step3
                   /\ recorded = IF step3 THEN 3 ELSE IF step2 THEN 2 ELSE v]_vars

\* C24: the version record is a singleton: in every state reached by
\* init_database, migrate_database and set_database_version calls, failed
\* ones included, database_version holds at most one row; and a version
\* write that fails leaves the rows as they were.
C24_VersionSingleton ==
    /\ [](Len(schema.versions) <= 1)
    /\ [][(nops' # nops) =>
             /\ (last'.op = "set_database_version" /\ ~last'.ok) =>
                   schema'.versions = schema.versions
             /\ (last'.op = "migrate" /\ last'.fault = "set3"
                 /\ get_database_version(schema, FALSE) = 2) =>
                   schema'.versions = schema.versions]_vars

\* version 3 was recorded by a migration of a version 2 store; the write
\* of version 4 that failed afterwards left that row
C24_Witness ==
    /\ last.op = "set_database_version" /\ ~last.ok /\ last.fault = "commit"
    /\ last.n = 4 /\ schema.engine
    /\ schema.versions = <<CURRENT_DB_VERSION>>

-----------------------------------------------------------------------------
(* Properties of the scraped_tweets table *)

\* C21: scraped_tweets is append-only and keyed by tweet id.  The only write
\* of a call is the one transaction of save_scraped_tweets, so concurrent
\* calls take effect in the order of their commits, which is any order of the
\* calls: in every step every stored row stays stored with all its columns;
\* the rows a save reports are that many new keys; and a save that constructs
\* a row whose tweet id is stored is rejected, it stores nothing.
C21_AppendOnly ==
    [][(nops' # nops) =>
          /\ \A k \in DOMAIN scraped_tweets :
                k \in DOMAIN scraped_tweets' /\ scraped_tweets'[k] = scraped_tweets[k]
          /\ last'.op = "check" => scraped_tweets' = scraped_tweets
          /\ last'.op = "bulk" =>
                LET rows == last'.rows
                    built == {i \in 1..Len(rows) : int(rows[i].Likes) >= 0}
                IN  /\ Cardinality(DOMAIN scraped_tweets') =
                          Cardinality(DOMAIN scraped_tweets) + last'.count
                    /\ (\E i \in built : rows[i].Tweet_ID \in DOMAIN scraped_tweets) =>
                          (scraped_tweets' = scraped_tweets /\ last'.count = 0)]_vars

\* x1 was stored under e1 with its parsed date; a later save of x1 and y1
\* under e2 stored neither
C21_Witness ==
    /\ last.op = "bulk" /\ last.fault = "none" /\ last.batch = "e2"
    /\ last.orig = <<"x1", "y1">> /\ last.count = 0 /\ last.error_count = 2
    /\ DOMAIN scraped_tweets = {"x1"}
    /\ scraped_tweets["x1"] = [execution_id |-> "e1", likes |-> 5,
                                date |-> TwitterDate, created_at |-> created_at]
    /\ \A i \in 1..2 : int(last.rows[i].Likes) >= 0

\* C27: for a fixed store and candidate list, the new_ids of a duplicate
\* check whose queries succeed are the same with no execution id, with the
\* execution id of stored rows and with one of no stored row: the candidates
\* that are not primary keys of stored rows, in candidate order.
C27_NewIdsIgnoreExecution ==
    (last.op = "check" /\ last.fault = "none") =>
        LET tweet_ids == last.orig
            fresh == SelectSeq(tweet_ids, LAMBDA tid : tid \notin DOMAIN scraped_tweets)
        IN  /\ last.new_ids = fresh
            /\ \A execution_id \in ExecutionIds \cup {NoExecution} :
                  CheckDuplicates(scraped_tweets, tweet_ids, execution_id, FALSE).new_ids
                     = last.new_ids

\* x1 is stored under e1, nothing under e2: the check of y1 under e1 returns
\* x1 as existing and y1 as new, as it does under e2 and under no id
C27_Witness ==
    /\ last.op = "check" /\ last.fault = "none" /\ last.batch = "e1"
    /\ last.orig = <<"y1">> /\ last.new_ids = <<"y1">> /\ last.existing_ids = {"x1"}
    /\ DOMAIN scraped_tweets = {"x1"} /\ scraped_tweets["x1"].execution_id = "e1"
    /\ CheckDuplicates(scraped_tweets, <<"y1">>, "e2", FALSE).existing_ids = {}

\* C22: get_scraped_tweets returns as total_count the number of stored rows
\* that match the filter, whatever limit and offset are; returns at most
\* limit rows; returns them by date descending, then created_at descending;
\* and for an unchanged store two pages with consecutive offsets share no
\* row, also when rows tie on both columns.
C22_ListPagination ==
    [][(nops' # nops /\ last'.op = "list" /\ last'.fault = "none") =>
          LET found == Matching(scraped_tweets, last'.batch)
              page == last'.ids
          IN  /\ last'.count = Cardinality(found)
              /\ last'.limit # <<>> => Len(page) <= last'.limit[1]
              /\ \A i, j \in 1..Len(page) :
                    i < j => ~Before(scraped_tweets, page[j], page[i])
              /\ ( /\ last.op = "list" /\ last.fault = "none"
                   /\ last.batch = last'.batch
                   /\ last.limit = last'.limit /\ Given(last.limit)
                   /\ last.offset # <<>> /\ last'.offset # <<>>
                   /\ last'.offset[1] = last.offset[1] + last.limit[1] )
                  => Range(last.ids) \cap Range(page) = {}]_vars

====
